---- MODULE Spec2Model ----
(***************************************************************************)
(* A model of the vectorised pruning substrate of the trip-based profile   *)
(* query: ProfileReachedIndexSIMD (the round-indexed reached index), the   *)
(* 16-lane vector SIMD16u in its NEON and AVX2 builds, and                  *)
(* aligned_allocator.                                                       *)
(***************************************************************************)
EXTENDS Integers, Sequences, FiniteSets, TLC

VARIABLES arch, stops, firstTripOfRoute, defaultLabels, labels, cleared,
          last, hist, backend, vec, out, call, alloc

\* The reached index, the lane vector and the allocator are independent
\* objects; each has its own specification and leaves the others alone.
indexVars == <<arch, stops, firstTripOfRoute, defaultLabels, labels, cleared,
               last, hist>>
simdVars == <<backend, vec, out, call>>
allocVars == <<alloc>>

vars == <<indexVars, simdVars, allocVars>>

(***************************************************************************)
(* Bounds of the model.                                                    *)
(***************************************************************************)
\* Number of trips of the timetable.
NumTrips == 3

(***************************************************************************)
(* Program constants.                                                      *)
(***************************************************************************)
\* u_int8_t values[16]: the lanes of one ReachedElement.
NumLanes == 16
\* assert(round < 16): the largest round.
MaxRound == 15
\* The largest value of a byte, 0xFF.
ByteMax == 255

Lanes == 0 .. (NumLanes - 1)
Rounds == 1 .. MaxRound
Archs == {"x86", "arm"}

Min(a, b) == IF a <= b THEN a ELSE b
Max(a, b) == IF a >= b THEN a ELSE b

(***************************************************************************)
(* The timetable (Data): external to these files, read through four        *)
(* accessors.  Trips of a route have the contiguous ascending ids          *)
(* firstTripOfRoute[route] .. firstTripOfRoute[route + 1] - 1.             *)
(***************************************************************************)
Trips == 0 .. (NumTrips - 1)

numberOfTrips == NumTrips

isTrip(trip) == trip \in Trips

numberOfStopsInTrip(trip) == stops[trip]

\* Stop counts that fit the 8-bit slot, and with them one that does not.
StopCounts == {1, 2}

StopCountsWide == StopCounts \cup {ByteMax + 2}

\* Two routes: the last trip is a route of its own, the others form route 0.
RouteLayouts == {[r \in 0 .. 2 |-> IF r = 0 THEN 0 ELSE IF r = 1 THEN NumTrips - 1 ELSE NumTrips]}

routeOfTrip(trip) == IF trip < firstTripOfRoute[1] THEN 0 ELSE 1

SameRoute(t1, t2) == routeOfTrip(t1) = routeOfTrip(t2)

(***************************************************************************)
(* 128-bit vector helpers: a vector is a function from Lanes to bytes.     *)
(***************************************************************************)
simd_set1_u8(val) == [i \in Lanes |-> val]

simd_max_u8(a, b) == [i \in Lanes |-> Max(a[i], b[i])]

\* A build that takes the maximum where the minimum is meant.
simd_min_u8_swapped(a, b) == [i \in Lanes |-> Max(a[i], b[i])]

simd_min_u8(a, b) == [i \in Lanes |-> Min(a[i], b[i])]

\* ARM: bytes 0 .. round-2 are 0xFF and the rest 0x00.
\* A loop that runs one lane too far.
makeMaskNEON_long(round) == [i \in Lanes |-> IF i < round /\ i < 16 THEN ByteMax ELSE 0]

makeMaskNEON(round) == [i \in Lanes |-> IF i < round - 1 /\ i < 16 THEN ByteMax ELSE 0]

\* A 64-bit literal as its eight bytes, least significant first:
\* the low k bytes are 0xFF (k = 8 is the literal -1).
Quad(k) == [i \in 0 .. 7 |-> IF i < k THEN ByteMax ELSE 0]

\* The 32 initialisers of MAX_MASKS in the order written.
\* The table with the high word of entry 9 left 0.
MAX_MASKS_INIT_typo ==
    << Quad(0), Quad(0),  Quad(1), Quad(0),  Quad(2), Quad(0),  Quad(3), Quad(0),
       Quad(4), Quad(0),  Quad(5), Quad(0),  Quad(6), Quad(0),  Quad(7), Quad(0),
       Quad(8), Quad(0),  Quad(8), Quad(0),  Quad(8), Quad(2),  Quad(8), Quad(3),
       Quad(8), Quad(4),  Quad(8), Quad(5),  Quad(8), Quad(6),  Quad(8), Quad(7) >>

MAX_MASKS_INIT ==
    << Quad(0), Quad(0),  Quad(1), Quad(0),  Quad(2), Quad(0),  Quad(3), Quad(0),
       Quad(4), Quad(0),  Quad(5), Quad(0),  Quad(6), Quad(0),  Quad(7), Quad(0),
       Quad(8), Quad(0),  Quad(8), Quad(1),  Quad(8), Quad(2),  Quad(8), Quad(3),
       Quad(8), Quad(4),  Quad(8), Quad(5),  Quad(8), Quad(6),  Quad(8), Quad(7) >>

\* Entry k of the table: two consecutive initialisers, low quadword first.
MAX_MASKS(k) == [i \in Lanes |-> IF i < 8 THEN MAX_MASKS_INIT[2 * k + 1][i]
                                          ELSE MAX_MASKS_INIT[2 * k + 2][i - 8]]

makeMaskSSE(round) == MAX_MASKS(round - 1)

\* The mask with its two halves exchanged: 0 below round - 1, 0xFF from there.
makeMask_inverted(round) == [i \in Lanes |-> IF i < round - 1 THEN 0 ELSE ByteMax]

makeMask(round) == IF arch = "arm" THEN makeMaskNEON(round) ELSE makeMaskSSE(round)

\* const simd128_t FILTER = simd_max_u8(simd_set1_u8(position), mask)
FILTER(position, round) == simd_max_u8(simd_set1_u8(position), makeMask(round))

(***************************************************************************)
(* ProfileReachedIndexSIMD                                                 *)
(***************************************************************************)
\* The constructor's default labels: every lane of a trip is filled with the
\* trip's stop count converted to u_int8_t.
DefaultLabels == [trip \in Trips |-> [i \in Lanes |-> numberOfStopsInTrip(trip) % (ByteMax + 1)]]

getPosition(lab, trip, round) == lab[trip][round - 1]

alreadyReached(lab, trip, position, round) == getPosition(lab, trip, round) <= position

\* The loop tested against the starting trip instead of the running one.
scanContinues_first(lab, tr, trip, position, round) ==
    /\ tr < firstTripOfRoute[routeOfTrip(trip) + 1]
    /\ getPosition(lab, trip, round) > position

\* The loop bounded by the number of trips instead of the route's end.
scanContinues_all(lab, tr, trip, position, round) ==
    /\ tr < numberOfTrips
    /\ getPosition(lab, tr, round) > position

\* The condition of update's for loop.
scanContinues(lab, tr, trip, position, round) ==
    /\ tr < firstTripOfRoute[routeOfTrip(trip) + 1]
    /\ getPosition(lab, tr, round) > position

\* The loop of update from trip tr on: the labels it leaves.
RECURSIVE scan(_, _, _, _, _)
scan(lab, tr, trip, position, round) ==
    IF scanContinues(lab, tr, trip, position, round)
    THEN scan([lab EXCEPT ![tr] = simd_min_u8(lab[tr], FILTER(position, round))],
              tr + 1, trip, position, round)
    ELSE lab

\* The trip at which the loop of update stops (the route's end when it runs out).
RECURSIVE scanEnd(_, _, _, _, _)
scanEnd(lab, tr, trip, position, round) ==
    IF scanContinues(lab, tr, trip, position, round)
    THEN scanEnd([lab EXCEPT ![tr] = simd_min_u8(lab[tr], FILTER(position, round))],
                 tr + 1, trip, position, round)
    ELSE tr

update(lab, trip, position, round) == scan(lab, trip, trip, position, round)

(***************************************************************************)
(* History of the calls since the last clear(): hist[t][r] is the least    *)
(* position p below t's stop count of any call update(t', p, r') with t'   *)
(* in t's route, t' <= t and r' <= r; NoCall when there was none.  Nothing *)
(* is recorded before the first clear().  last names the last operation.   *)
(***************************************************************************)
NoCall == ByteMax + 1

NoHistory == [t \in Trips |-> [r \in Rounds |-> NoCall]]

Record(h, trip, position, round) ==
    [t \in Trips |-> [r \in Rounds |->
        IF /\ SameRoute(trip, t) /\ trip <= t /\ round <= r
           /\ position < numberOfStopsInTrip(t)
        THEN Min(h[t][r], position)
        ELSE h[t][r]]]

(***************************************************************************)
(* Inputs.                                                                 *)
(***************************************************************************)
\* Positions passed to update: the small ones and the largest byte.
Positions == {0, 1, 2, ByteMax}

\* Rounds passed to update in Spec: the first, one past the quadword
\* boundary of the mask, and the last.
RoundInputs == {1, 10, MaxRound}

\* Contents of the labels before the first clear(): ReachedElement's
\* constructor initialises nothing, so they are indeterminate.
Garbage == {[trip \in Trips |-> [i \in Lanes |-> 0]],
            [trip \in Trips |-> [i \in Lanes |-> (i + trip) % 2]]}

\* No lane vector and no allocator call: the state of the other two objects
\* while the reached index runs.
SimdIdle ==
    /\ backend = "none"
    /\ vec = <<>>
    /\ out = <<>>
    /\ call = [op |-> "none"]

AllocIdle == alloc = [op |-> "none"]

Init ==
    /\ arch \in Archs
    /\ firstTripOfRoute \in RouteLayouts
    /\ stops \in [Trips -> StopCounts]
    /\ defaultLabels = DefaultLabels
    /\ labels \in Garbage
    /\ cleared = FALSE
    /\ last = "new"
    /\ hist = NoHistory
    /\ SimdIdle
    /\ AllocIdle

\* inline void clear() noexcept { labels = defaultLabels; }
Clear ==
    /\ labels' = defaultLabels
    /\ cleared' = TRUE
    /\ last' = "clear"
    /\ hist' = NoHistory
    /\ UNCHANGED <<arch, stops, firstTripOfRoute, defaultLabels>>
    /\ UNCHANGED <<simdVars, allocVars>>

Update(trip, position, round) ==
    /\ isTrip(trip)
    /\ 0 < round
    /\ round < 16
    /\ labels' = update(labels, trip, position, round)
    /\ last' = "update"
    /\ hist' = IF cleared THEN Record(hist, trip, position, round) ELSE hist
    /\ UNCHANGED <<arch, stops, firstTripOfRoute, defaultLabels, cleared>>
    /\ UNCHANGED <<simdVars, allocVars>>

UpdateSome ==
    \E trip \in Trips, position \in Positions, round \in RoundInputs :
        /\ Update(trip, position, round)

Next == Clear \/ UpdateSome

Spec == Init /\ [][Next]_vars

\* One call of update, with any round, on an index just constructed or just
\* cleared.
UpdateAnyRound ==
    \E trip \in Trips, position \in Positions, round \in Rounds :
        /\ last # "update"
        /\ Update(trip, position, round)

NextRounds == Clear \/ UpdateAnyRound

\* The same, on timetables that may hold a trip of more than 255 stops.
InitWide ==
    /\ arch \in Archs
    /\ firstTripOfRoute \in RouteLayouts
    /\ stops \in [Trips -> StopCountsWide]
    /\ defaultLabels = DefaultLabels
    /\ labels \in Garbage
    /\ cleared = FALSE
    /\ last = "new"
    /\ hist = NoHistory
    /\ SimdIdle
    /\ AllocIdle

SpecRounds == InitWide /\ [][NextRounds]_vars

(***************************************************************************)
(* SIMD16u: 16 lanes of uint16_t.  A value is its lanes arr[0 .. 15] (the  *)
(* Holder union); the NEON build keeps them in two registers lo (lanes     *)
(* 0 .. 7) and hi (lanes 8 .. 15), the AVX2 build in one.                  *)
(***************************************************************************)
\* std::uint16_t arr[16]
NumLanes16 == 16
\* Lanes of one NEON register (uint16x8_t).
HalfLanes == 8
\* Bits of a lane.
LaneBits == 16
\* Bits of a byte.
ByteBits == 8

Lanes16 == 0 .. (NumLanes16 - 1)
Half == 0 .. (HalfLanes - 1)

RECURSIVE Pow2(_)
Pow2(n) == IF n = 0 THEN 1 ELSE 2 * Pow2(n - 1)

LaneMod == Pow2(LaneBits)
AllOnes == LaneMod - 1
ByteMod == Pow2(ByteBits)

\* Bitwise operations on the low n bits.
RECURSIVE BitAnd(_, _, _)
BitAnd(a, b, n) ==
    IF n = 0 THEN 0 ELSE (a % 2) * (b % 2) + 2 * BitAnd(a \div 2, b \div 2, n - 1)

RECURSIVE BitOr(_, _, _)
BitOr(a, b, n) ==
    IF n = 0 THEN 0 ELSE Max(a % 2, b % 2) + 2 * BitOr(a \div 2, b \div 2, n - 1)

RECURSIVE BitXor(_, _, _)
BitXor(a, b, n) ==
    IF n = 0 THEN 0 ELSE ((a + b) % 2) + 2 * BitXor(a \div 2, b \div 2, n - 1)

BitNot(a, n) == Pow2(n) - 1 - a

Lo(a) == [i \in Half |-> a[i]]
Hi(a) == [i \in Half |-> a[i + HalfLanes]]
Join(lo, hi) == [i \in Lanes16 |-> IF i < HalfLanes THEN lo[i] ELSE hi[i - HalfLanes]]

\* NEON intrinsics on one uint16x8_t.
vdupq_n_u16(x) == [i \in Half |-> x]
vaddq_u16(a, b) == [i \in Half |-> (a[i] + b[i]) % LaneMod]
vsubq_u16(a, b) == [i \in Half |-> (a[i] + LaneMod - b[i]) % LaneMod]
vandq_u16(a, b) == [i \in Half |-> BitAnd(a[i], b[i], LaneBits)]
vorrq_u16(a, b) == [i \in Half |-> BitOr(a[i], b[i], LaneBits)]
veorq_u16(a, b) == [i \in Half |-> BitXor(a[i], b[i], LaneBits)]
vceqq_u16(a, b) == [i \in Half |-> IF a[i] = b[i] THEN AllOnes ELSE 0]
vmaxq_u16(a, b) == [i \in Half |-> Max(a[i], b[i])]
vminq_u16(a, b) == [i \in Half |-> Min(a[i], b[i])]

\* static_cast<int16_t>(bits), then vdupq_n_s16.
ToInt16(x) == LET m == x % LaneMod IN IF m >= LaneMod \div 2 THEN m - LaneMod ELSE m

vdupq_n_s16(x) == [i \in Half |-> x]

\* The shift count of a lane: the least significant byte of the lane, signed.
ShiftOfLane(x) == LET b == x % ByteMod IN IF b >= ByteMod \div 2 THEN b - ByteMod ELSE b

\* vshlq_u16: left by a positive count, right by a negative one.
vshlq_u16(a, shift) ==
    [i \in Half |->
        LET c == ShiftOfLane(shift[i]) IN
          IF c >= LaneBits \/ c <= -LaneBits THEN 0
          ELSE IF c >= 0 THEN (a[i] * Pow2(c)) % LaneMod
          ELSE a[i] \div Pow2(-c)]

\* vbslq_u16(mask, a, b): each bit from a where the mask bit is 1, from b where 0.
vbslq_u16(mask, a, b) ==
    [i \in Half |-> BitOr(BitAnd(mask[i], a[i], LaneBits),
                          BitAnd(BitNot(mask[i], LaneBits), b[i], LaneBits), LaneBits)]

\* AVX2 intrinsics on one __m256i seen as 16 lanes.
mm256_set1_epi16(x) == [i \in Lanes16 |-> x]
mm256_add_epi16(a, b) == [i \in Lanes16 |-> (a[i] + b[i]) % LaneMod]
mm256_sub_epi16(a, b) == [i \in Lanes16 |-> (a[i] + LaneMod - b[i]) % LaneMod]
mm256_and_si256(a, b) == [i \in Lanes16 |-> BitAnd(a[i], b[i], LaneBits)]
mm256_or_si256(a, b) == [i \in Lanes16 |-> BitOr(a[i], b[i], LaneBits)]
mm256_xor_si256(a, b) == [i \in Lanes16 |-> BitXor(a[i], b[i], LaneBits)]
mm256_cmpeq_epi16(a, b) == [i \in Lanes16 |-> IF a[i] = b[i] THEN AllOnes ELSE 0]
mm256_max_epu16(a, b) == [i \in Lanes16 |-> Max(a[i], b[i])]

\* The lane as a signed 16-bit number.
Signed16(x) == IF x >= LaneMod \div 2 THEN x - LaneMod ELSE x

\* The signed minimum (_mm256_min_epi16) in place of the unsigned one.
mm256_min_epi16(a, b) == [i \in Lanes16 |-> IF Signed16(a[i]) <= Signed16(b[i]) THEN a[i] ELSE b[i]]

mm256_min_epu16(a, b) == [i \in Lanes16 |-> Min(a[i], b[i])]

\* _mm256_slli_epi16 / _mm256_srli_epi16: a count above 15 gives 0; a negative
\* int is a count above 15.
mm256_slli_epi16(a, count) ==
    [i \in Lanes16 |-> IF count < 0 \/ count >= LaneBits THEN 0 ELSE (a[i] * Pow2(count)) % LaneMod]

mm256_srli_epi16(a, count) ==
    [i \in Lanes16 |-> IF count < 0 \/ count >= LaneBits THEN 0 ELSE a[i] \div Pow2(count)]

\* _mm256_blendv_epi8(a, b, mask): each byte from b where the top bit of the
\* mask's byte is set, from a where it is not.
BlendByte(a, b, m) == IF m >= ByteMod \div 2 THEN b ELSE a

mm256_blendv_epi8(a, b, mask) ==
    [i \in Lanes16 |->
        BlendByte(a[i] % ByteMod, b[i] % ByteMod, mask[i] % ByteMod)
        + ByteMod * BlendByte(a[i] \div ByteMod, b[i] \div ByteMod, mask[i] \div ByteMod)]

\* The methods of SIMD16u in the NEON build: the lanes they leave or return.
neon_fill(x) == Join(vdupq_n_u16(x), vdupq_n_u16(x))
neon_load(buf) == Join([i \in Half |-> buf[i]], [i \in Half |-> buf[i + HalfLanes]])
neon_store(a) == Join(Lo(a), Hi(a))
neon_add(a, b) == Join(vaddq_u16(Lo(a), Lo(b)), vaddq_u16(Hi(a), Hi(b)))
neon_sub(a, b) == Join(vsubq_u16(Lo(a), Lo(b)), vsubq_u16(Hi(a), Hi(b)))
neon_and(a, b) == Join(vandq_u16(Lo(a), Lo(b)), vandq_u16(Hi(a), Hi(b)))
neon_or(a, b) == Join(vorrq_u16(Lo(a), Lo(b)), vorrq_u16(Hi(a), Hi(b)))
neon_xor(a, b) == Join(veorq_u16(Lo(a), Lo(b)), veorq_u16(Hi(a), Hi(b)))
neon_sll(a, bits) ==
    LET shift == vdupq_n_s16(ToInt16(bits)) IN Join(vshlq_u16(Lo(a), shift), vshlq_u16(Hi(a), shift))
neon_srl(a, bits) ==
    LET shift == vdupq_n_s16(ToInt16(-bits)) IN Join(vshlq_u16(Lo(a), shift), vshlq_u16(Hi(a), shift))
neon_cmpeq(a, b) == Join(vceqq_u16(Lo(a), Lo(b)), vceqq_u16(Hi(a), Hi(b)))
neon_maxmask(a, b) ==
    LET mlo == vmaxq_u16(Lo(a), Lo(b))
        mhi == vmaxq_u16(Hi(a), Hi(b))
    IN [v |-> Join(mlo, mhi), out |-> Join(vceqq_u16(mlo, Lo(a)), vceqq_u16(mhi, Hi(a)))]
neon_minmask(a, b) ==
    LET mlo == vminq_u16(Lo(a), Lo(b))
        mhi == vminq_u16(Hi(a), Hi(b))
    IN [v |-> Join(mlo, mhi), out |-> Join(vceqq_u16(mlo, Lo(a)), vceqq_u16(mhi, Hi(a)))]

\* blend with the receiver and the other vector changing places.
neon_blend_swapped(a, other, mask) ==
    Join(vbslq_u16(Lo(mask), Lo(other), Lo(a)), vbslq_u16(Hi(mask), Hi(other), Hi(a)))

neon_blend(a, other, mask) ==
    Join(vbslq_u16(Lo(mask), Lo(a), Lo(other)), vbslq_u16(Hi(mask), Hi(a), Hi(other)))

\* The methods of SIMD16u in the AVX2 build.
avx_fill(x) == mm256_set1_epi16(x)
avx_load(buf) == [i \in Lanes16 |-> buf[i]]
avx_store(a) == [i \in Lanes16 |-> a[i]]
avx_add(a, b) == mm256_add_epi16(a, b)
avx_sub(a, b) == mm256_sub_epi16(a, b)
avx_and(a, b) == mm256_and_si256(a, b)
avx_or(a, b) == mm256_or_si256(a, b)
avx_xor(a, b) == mm256_xor_si256(a, b)
avx_sll(a, bits) == mm256_slli_epi16(a, bits)
avx_srl(a, bits) == mm256_srli_epi16(a, bits)
avx_cmpeq(a, b) == mm256_cmpeq_epi16(a, b)
avx_max(a, b) ==
    LET m == mm256_max_epu16(a, b) IN [v |-> m, out |-> mm256_cmpeq_epi16(m, a)]
avx_min(a, b) ==
    LET m == mm256_min_epu16(a, b) IN [v |-> m, out |-> mm256_cmpeq_epi16(m, a)]
avx_blend(a, other, mask) == mm256_blendv_epi8(other, a, mask)

\* operator[]: the lane i & 15, in both builds.
LaneIndex(i) == i % NumLanes16

\* Operations applied to one vector after load or fill has built it.
MaxOps == 1

Backends == {"neon", "avx2"}

\* Lane values: the ends of the range, the sign bit, a byte of ones.
LaneSeq == <<0, 1, ByteMax, AllOnes \div 2 + 1, AllOnes>>
LaneValues == {LaneSeq[k] : k \in 1 .. Len(LaneSeq)}

Splat(x) == [i \in Lanes16 |-> x]
Ascending == [i \in Lanes16 |-> LaneSeq[(i % Len(LaneSeq)) + 1]]
Descending == [i \in Lanes16 |-> LaneSeq[Len(LaneSeq) - (i % Len(LaneSeq))]]
Alternating == [i \in Lanes16 |-> IF i % 2 = 0 THEN AllOnes ELSE 0]

\* Buffers loaded and operands passed.
Operands == {Splat(0), Splat(1), Splat(AllOnes), Ascending, Descending}

\* Masks passed to blend: whole lanes, and lanes that are neither all-ones
\* nor all-zeros.
Masks == Operands \cup {Alternating}

\* int bits of sll and srl.
BitCounts == {-1, 0, 1, LaneBits - 1, LaneBits, ByteMax}

\* std::size_t i of operator[].
LaneIndexes == {NumLanes16 - 1, NumLanes16 + 1}

NoResult == <<>>

\* What one call leaves in the receiver (v) and returns or stores (out), in
\* the build bk.  c.a is the receiver before the call.
Result(bk, c) ==
    CASE c.op = "fill" ->
           [v |-> IF bk = "neon" THEN neon_fill(c.x) ELSE avx_fill(c.x), out |-> NoResult]
      [] c.op = "load" ->
           [v |-> IF bk = "neon" THEN neon_load(c.b) ELSE avx_load(c.b), out |-> NoResult]
      [] c.op = "store" ->
           [v |-> c.a, out |-> IF bk = "neon" THEN neon_store(c.a) ELSE avx_store(c.a)]
      [] c.op = "read" ->
           [v |-> c.a, out |-> <<c.a[LaneIndex(c.n)]>>]
      [] c.op = "write" ->
           [v |-> [c.a EXCEPT ![LaneIndex(c.n)] = c.x], out |-> NoResult]
      [] c.op = "add" ->
           [v |-> c.a, out |-> IF bk = "neon" THEN neon_add(c.a, c.b) ELSE avx_add(c.a, c.b)]
      [] c.op = "sub" ->
           [v |-> c.a, out |-> IF bk = "neon" THEN neon_sub(c.a, c.b) ELSE avx_sub(c.a, c.b)]
      [] c.op = "and" ->
           [v |-> c.a, out |-> IF bk = "neon" THEN neon_and(c.a, c.b) ELSE avx_and(c.a, c.b)]
      [] c.op = "or" ->
           [v |-> c.a, out |-> IF bk = "neon" THEN neon_or(c.a, c.b) ELSE avx_or(c.a, c.b)]
      [] c.op = "xor" ->
           [v |-> c.a, out |-> IF bk = "neon" THEN neon_xor(c.a, c.b) ELSE avx_xor(c.a, c.b)]
      [] c.op = "sll" ->
           [v |-> c.a, out |-> IF bk = "neon" THEN neon_sll(c.a, c.n) ELSE avx_sll(c.a, c.n)]
      [] c.op = "srl" ->
           [v |-> c.a, out |-> IF bk = "neon" THEN neon_srl(c.a, c.n) ELSE avx_srl(c.a, c.n)]
      [] c.op = "cmpeq" ->
           [v |-> c.a, out |-> IF bk = "neon" THEN neon_cmpeq(c.a, c.b) ELSE avx_cmpeq(c.a, c.b)]
      [] c.op = "max" ->
           IF bk = "neon" THEN neon_maxmask(c.a, c.b) ELSE avx_max(c.a, c.b)
      [] c.op = "min" ->
           IF bk = "neon" THEN neon_minmask(c.a, c.b) ELSE avx_min(c.a, c.b)
      [] c.op = "blend" ->
           [v |-> IF bk = "neon" THEN neon_blend(c.a, c.b, c.m) ELSE avx_blend(c.a, c.b, c.m),
            out |-> NoResult]

\* A call record: the build it ran in, the operation, the receiver before it,
\* the operand vector, the mask, the integer argument, the scalar, and the
\* number of operations the receiver has had since it was built.
Call(op, b, m, n, x, k) ==
    [build |-> backend, op |-> op, a |-> vec, b |-> b, m |-> m, n |-> n, x |-> x, k |-> k]

Do(c) ==
    LET r == Result(backend, c) IN
      /\ vec' = r.v
      /\ out' = r.out
      /\ call' = c
      /\ UNCHANGED <<backend, indexVars, allocVars>>

\* An operation on a vector that was built before.
Apply(op, b, m, n, x) ==
    /\ call.k < MaxOps
    /\ Do(Call(op, b, m, n, x, call.k + 1))

\* fill and load build the whole vector: what the receiver held is gone.
Built(op, b, x) ==
    [build |-> backend, op |-> op, a |-> NoResult, b |-> b, m |-> NoResult, n |-> 0, x |-> x, k |-> 0]

\* A vector built by load from one of the buffers, in either build.
InitSIMD ==
    /\ backend \in Backends
    /\ \E buf \in Operands :
         /\ vec = (IF backend = "neon" THEN neon_load(buf) ELSE avx_load(buf))
         /\ call = Built("load", buf, 0)
    /\ out = NoResult
    /\ arch = "x86"
    /\ firstTripOfRoute \in RouteLayouts
    /\ stops = [trip \in Trips |-> 1]
    /\ defaultLabels = DefaultLabels
    /\ labels = defaultLabels
    /\ cleared = TRUE
    /\ last = "clear"
    /\ hist = NoHistory
    /\ AllocIdle

Fill == \E x \in LaneValues : Do(Built("fill", NoResult, x))

Load == \E buf \in Operands : Do(Built("load", buf, 0))

Store == Apply("store", NoResult, NoResult, 0, 0)

ReadLane == \E i \in LaneIndexes : Apply("read", NoResult, NoResult, i, 0)

WriteLane == \E i \in LaneIndexes, x \in LaneValues : Apply("write", NoResult, NoResult, i, x)

Plus == \E b \in Operands : Apply("add", b, NoResult, 0, 0)

Minus == \E b \in Operands : Apply("sub", b, NoResult, 0, 0)

BitwiseAnd == \E b \in Operands : Apply("and", b, NoResult, 0, 0)

BitwiseOr == \E b \in Operands : Apply("or", b, NoResult, 0, 0)

BitwiseXor == \E b \in Operands : Apply("xor", b, NoResult, 0, 0)

Sll == \E bits \in BitCounts : Apply("sll", NoResult, NoResult, bits, 0)

Srl == \E bits \in BitCounts : Apply("srl", NoResult, NoResult, bits, 0)

Cmpeq == \E b \in Operands : Apply("cmpeq", b, NoResult, 0, 0)

Maximum == \E b \in Operands : Apply("max", b, NoResult, 0, 0)

Minimum == \E b \in Operands : Apply("min", b, NoResult, 0, 0)

Blend == \E other \in Operands, mask \in Masks : Apply("blend", other, mask, 0, 0)

NextSIMD ==
    \/ Fill \/ Load \/ Store \/ ReadLane \/ WriteLane
    \/ Plus \/ Minus \/ BitwiseAnd \/ BitwiseOr \/ BitwiseXor
    \/ Sll \/ Srl \/ Cmpeq \/ Maximum \/ Minimum \/ Blend

SpecSIMD == InitSIMD /\ [][NextSIMD]_vars

(***************************************************************************)
(* aligned_allocator<T, Alignment>.  size_t is modelled with SizeBits bits *)
(* instead of 64; all of its arithmetic is modulo 2^SizeBits.              *)
(***************************************************************************)
\* Width of size_t in the model.
SizeBits == 6

SizeMod == Pow2(SizeBits)
\* static_cast<std::size_t>(0) - static_cast<std::size_t>(1)
SizeMax == (SizeMod + 0 - 1) % SizeMod

\* sizeof(T) and Alignment of the instantiations.
ElementSizes == {1, 2, 3}
Alignments == {4, 16}

NULL == 0
NoRequest == -1
NoAnswer == -1

\* What the platform allocator may answer: NULL, or an aligned address.
PlatformAnswers(Alignment) == {NULL, Alignment, 2 * Alignment}

\* max_size() without the division by sizeof(T).
max_size_undivided(sizeofT) == SizeMax

max_size(sizeofT) == SizeMax \div sizeofT

\* allocate(n): the outcome, the byte size requested from the platform
\* allocator, the platform's answer pv and the pointer returned.
allocate(sizeofT, Alignment, n, pv) ==
    IF n = 0 THEN
        [outcome |-> "null", requested |-> NoRequest, answer |-> NoAnswer, returned |-> NULL]
    ELSE IF n > max_size(sizeofT) THEN
        [outcome |-> "length_error", requested |-> NoRequest, answer |-> NoAnswer,
         returned |-> NULL]
    ELSE
        LET total == (n * sizeofT) % SizeMod
            aligned_total ==
                BitAnd((total + Alignment - 1) % SizeMod,
                       BitNot((Alignment - 1) % SizeMod, SizeBits), SizeBits)
            requested == IF arch = "arm" THEN aligned_total ELSE total
        IN IF pv = NULL THEN
               [outcome |-> "bad_alloc", requested |-> requested, answer |-> pv,
                returned |-> NULL]
           ELSE
               [outcome |-> "pointer", requested |-> requested, answer |-> pv,
                returned |-> pv]

\* An allocator of one instantiation in one build, before any call.
InitAlloc ==
    /\ arch \in Archs
    /\ \E sizeofT \in ElementSizes, Alignment \in Alignments :
          alloc = [op |-> "new", sizeofT |-> sizeofT, Alignment |-> Alignment, n |-> 0,
                   result |-> <<>>]
    /\ firstTripOfRoute \in RouteLayouts
    /\ stops = [trip \in Trips |-> 1]
    /\ defaultLabels = DefaultLabels
    /\ labels = defaultLabels
    /\ cleared = TRUE
    /\ last = "clear"
    /\ hist = NoHistory
    /\ SimdIdle

Allocate ==
    \E n \in 0 .. SizeMax, pv \in PlatformAnswers(alloc.Alignment) :
        /\ alloc' = [alloc EXCEPT !.op = "allocate", !.n = n,
                                  !.result = allocate(alloc.sizeofT, alloc.Alignment, n, pv)]
        /\ UNCHANGED <<indexVars, simdVars>>

NextAlloc == Allocate

SpecAlloc == InitAlloc /\ [][NextAlloc]_vars

(***************************************************************************)
(* Properties of the reached index.                                        *)
(***************************************************************************)
\* The trips of trip's route from trip to the route's last one.
RestOfRoute(trip) == trip .. (firstTripOfRoute[routeOfTrip(trip) + 1] - 1)

\* All trips of a route have the same stop count.
UniformRoutes == \A t1, t2 \in Trips : SameRoute(t1, t2) => stops[t1] = stops[t2]

\* The lane-wise minimum of one trip's vector v: rounds >= round take
\* min(old, position), rounds < round keep their value.
LaneMin(v, position, round) ==
    [i \in Lanes |-> IF i + 1 >= round THEN Min(v[i], position) ELSE v[i]]

\* C1: after clear() and any updates, on a timetable whose routes have one stop
\* count each, update(trip, position, round) leaves every trip from trip to the
\* last trip of the route with the values the lane-wise minimum gives that trip
\* alone, wherever the scan stops.
C1_EarlyExitEquivalence ==
    (cleared /\ UniformRoutes) =>
        \A trip \in Trips, position \in Positions, round \in Rounds :
            LET after == update(labels, trip, position, round) IN
                \A t2 \in RestOfRoute(trip) : after[t2] = LaneMin(labels[t2], position, round)

\* C1 is met where a scan that has lowered at least one trip stops before the
\* route's end, at a trip that is already as good.
C1_Witness ==
    /\ cleared /\ UniformRoutes /\ last = "update"
    /\ \E trip \in Trips, position \in Positions, round \in Rounds :
          LET end == scanEnd(labels, trip, trip, position, round) IN
            /\ trip < end
            /\ end \in RestOfRoute(trip)
            /\ update(labels, trip, position, round)[trip] # labels[trip]
            /\ update(labels, trip, position, round)[end] = LaneMin(labels[end], position, round)

\* C2: after clear() and any updates, right after update(trip, position, round)
\* alreadyReached(trip, position, r2) is true for every round r2 from round to 15.
C2_ForwardPropagation ==
    cleared =>
        \A trip \in Trips, position \in Positions, round \in Rounds :
            LET after == update(labels, trip, position, round) IN
                \A r2 \in round .. MaxRound : alreadyReached(after, trip, position, r2)

\* C2 is met where the scan stops at trip itself, whose value at round was
\* already as good, by an earlier call at a lower round.
C2_Witness ==
    /\ cleared /\ last = "update"
    /\ \E trip \in Trips, position \in Positions, round \in Rounds :
          /\ round > 1
          /\ position < numberOfStopsInTrip(trip)
          /\ scanEnd(labels, trip, trip, position, round) = trip
          /\ update(labels, trip, position, round) = labels
          /\ \A r2 \in round .. MaxRound : alreadyReached(labels, trip, position, r2)
          /\ ~alreadyReached(labels, trip, position, 1)

\* C3: update(trip, position, round) leaves the stored position of every trip at
\* every round below round as it was, with the mask of either build.
C3_LowerRoundsUntouched ==
    \A trip \in Trips, position \in Positions, round \in Rounds :
        LET after == update(labels, trip, position, round) IN
            \A t2 \in Trips, r2 \in 1 .. (round - 1) :
                getPosition(after, t2, r2) = getPosition(labels, t2, r2)

\* C3 is met after a call at round 10, whose mask comes from both quadwords of
\* the x86 table: round 10 is lowered and round 9 still holds the stop count.
C3_Witness ==
    /\ cleared /\ last = "update" /\ arch = "x86"
    /\ \E trip \in Trips :
          /\ getPosition(labels, trip, 9) = numberOfStopsInTrip(trip)
          /\ getPosition(labels, trip, 10) < getPosition(labels, trip, 9)

\* C4: no update raises a stored position: after each update every trip's
\* position at every round is at most what it was before.
C4_Monotone ==
    [][last' = "update" =>
          \A trip \in Trips, round \in Rounds :
              getPosition(labels', trip, round) <= getPosition(labels, trip, round)]_vars

\* C4 is met after an update that has lowered a position below the cleared value.
C4_Witness ==
    /\ cleared /\ last = "update"
    /\ \E trip \in Trips, round \in Rounds :
          getPosition(labels, trip, round) < getPosition(defaultLabels, trip, round)

\* C5: after clear() the stored position of every trip at every round is the
\* trip's stop count, whatever the stop count.
C5_ClearStoresStopCount ==
    last = "clear" =>
        \A trip \in Trips, round \in Rounds :
            getPosition(labels, trip, round) = numberOfStopsInTrip(trip)

\* C6: on a timetable of stop counts up to 255, after clear() and any updates,
\* alreadyReached(trip, q, round) with q below trip's stop count is true only if
\* a call update(t', p, r') with t' in trip's route, t' <= trip, r' <= round and
\* p <= q was made since that clear(); and one update(trip, position, round) on
\* the cleared index leaves alreadyReached(trip, q, round) false for such q
\* below position.
C6_NoOverPruning ==
    (cleared /\ \A t \in Trips : numberOfStopsInTrip(t) <= ByteMax) =>
        /\ \A trip \in Trips, round \in Rounds :
              \A q \in 0 .. (numberOfStopsInTrip(trip) - 1) :
                  alreadyReached(labels, trip, q, round) => hist[trip][round] <= q
        /\ last = "clear" =>
              \A trip \in Trips, position \in Positions, round \in Rounds :
                  LET after == update(labels, trip, position, round) IN
                      \A q \in 0 .. (Min(position, numberOfStopsInTrip(trip)) - 1) :
                          ~alreadyReached(after, trip, q, round)

\* C6 is met where a trip counts as reached through a call made for an earlier
\* trip of its route, while a trip of the other route does not.
C6_Witness ==
    /\ cleared /\ last = "update"
    /\ \E trip \in Trips, round \in Rounds :
          /\ trip > firstTripOfRoute[routeOfTrip(trip)]
          /\ alreadyReached(labels, trip, 0, round)
          /\ hist[trip][round] = 0
          /\ alreadyReached(labels, trip - 1, 0, round)
    /\ \E other \in Trips : \A round \in Rounds : ~alreadyReached(labels, other, 0, round)

\* C11: on a timetable whose routes have one stop count each, in every state
\* reached from clear() by update calls only, for every round r in 1 .. 15 and
\* trips t1 < t2 of one route stored(t2, r) <= stored(t1, r), and for every
\* trip and rounds r <= r2 stored(t, r2) <= stored(t, r); hence a trip whose
\* value at round r is already <= position has every later trip of its route
\* <= position at every round >= r.
C11_RouteOrder ==
    (cleared /\ UniformRoutes) =>
        /\ \A t1, t2 \in Trips, r \in Rounds :
              (t1 < t2 /\ SameRoute(t1, t2)) =>
                  getPosition(labels, t2, r) <= getPosition(labels, t1, r)
        /\ \A t \in Trips, r, r2 \in Rounds :
              r <= r2 => getPosition(labels, t, r2) <= getPosition(labels, t, r)
        /\ \A t \in Trips, r \in Rounds, position \in Positions :
              getPosition(labels, t, r) <= position =>
                  \A t2 \in RestOfRoute(t), r2 \in Rounds :
                      r2 >= r => getPosition(labels, t2, r2) <= position

\* C11 is met where updates have made a later trip of a route strictly better
\* than an earlier one, and a later round strictly better than an earlier one.
C11_Witness ==
    /\ cleared /\ UniformRoutes /\ last = "update"
    /\ \E t1, t2 \in Trips, r, r2 \in Rounds :
          /\ t1 < t2 /\ SameRoute(t1, t2) /\ r < r2
          /\ getPosition(labels, t2, r) < getPosition(labels, t1, r)
          /\ getPosition(labels, t2, r2) < getPosition(labels, t2, r)
          /\ getPosition(labels, t2, r2) < getPosition(defaultLabels, t2, r2)

(***************************************************************************)
(* Properties of the lane vector.                                          *)
(***************************************************************************)
\* C7: after the minimum operation on receiver a with operand b, in either
\* build, every lane i of the receiver is min(a[i], b[i]) as unsigned 16-bit
\* values and lane i of the returned mask is 0xFFFF exactly when a[i] <= b[i]
\* and 0 otherwise; the maximum operation is the mirror image with a[i] >= b[i].
C7_MinMaxWithMask ==
    /\ call.op = "min" =>
          \A i \in Lanes16 :
              /\ vec[i] = Min(call.a[i], call.b[i])
              /\ out[i] = (IF call.a[i] <= call.b[i] THEN AllOnes ELSE 0)
    /\ call.op = "max" =>
          \A i \in Lanes16 :
              /\ vec[i] = Max(call.a[i], call.b[i])
              /\ out[i] = (IF call.a[i] >= call.b[i] THEN AllOnes ELSE 0)

\* C7 is met where a minimum lowered some lanes and left others, one of them
\* a lane whose two values lie on the two sides of the sign bit.
C7_Witness ==
    /\ call.op = "min"
    /\ \E i, j, l \in Lanes16 :
          /\ out[i] = 0 /\ vec[i] = call.b[i] /\ vec[i] < call.a[i]
          /\ out[j] = AllOnes /\ vec[j] = call.a[j] /\ call.a[j] < call.b[j]
          /\ call.a[j] < LaneMod \div 2 /\ call.b[j] >= LaneMod \div 2
          /\ out[l] = AllOnes /\ call.a[l] = call.b[l]

\* The state the last call left, were the vector compiled in the build bk.
LeftBy(bk) == Result(bk, call) = [v |-> vec, out |-> out]

\* A blend mask made of whole lanes.
WholeLanes(mask) == \A i \in Lanes16 : mask[i] \in {0, AllOnes}

\* A bit count within the lane.
WithinLane(bits) == bits \in 0 .. (LaneBits - 1)

\* C8 as stated: for every operation and every input, including blend masks
\* whose lanes are neither all-ones nor all-zeros and every integer bit
\* count, the NEON build and the AVX2 build leave and return the same lanes.
C8_BackendsAgree == \A bk \in Backends : LeftBy(bk)

\* C8, amended: the two builds leave and return the same lanes for every
\* operation, provided each lane of a blend mask is all-ones or all-zeros and
\* the bit count of a shift is in 0 .. 15.
C8_BackendsAgreeOnWholeLanes ==
    ((call.op = "blend" => WholeLanes(call.m))
        /\ (call.op \in {"sll", "srl"} => WithinLane(call.n)))
    => \A bk \in Backends : LeftBy(bk)

\* The amended C8 is met where a blend with a mask of whole lanes took some
\* lanes from the receiver and some from the other vector.
C8_Witness ==
    /\ call.op = "blend"
    /\ WholeLanes(call.m)
    /\ \E i, j \in Lanes16 :
          /\ call.m[i] = AllOnes /\ vec[i] = call.a[i] /\ vec[i] # call.b[i]
          /\ call.m[j] = 0 /\ vec[j] = call.b[j] /\ vec[j] # call.a[j]

(***************************************************************************)
(* Properties of the allocator.                                            *)
(***************************************************************************)
\* n * sizeof(T) as a number, not in size_t.
Bytes == alloc.n * alloc.sizeofT

\* C9: allocate(n) has exactly these outcomes: for n = 0 it returns null
\* without an error and without calling the platform allocator; for n > 0 with
\* n * sizeof(T) overflowing size_t it signals a length error and requests no
\* memory; for n > 0 without overflow it signals out-of-memory when the platform
\* returns null and otherwise returns the platform's pointer.
C9_AllocateOutcomes ==
    alloc.op = "allocate" =>
        LET r == alloc.result IN
          /\ alloc.n = 0 =>
                r.outcome = "null" /\ r.returned = NULL /\ r.requested = NoRequest
          /\ (alloc.n > 0 /\ Bytes > SizeMax) =>
                r.outcome = "length_error" /\ r.requested = NoRequest
          /\ (alloc.n > 0 /\ Bytes <= SizeMax) =>
                /\ r.requested # NoRequest
                /\ r.answer = NULL => r.outcome = "bad_alloc"
                /\ r.answer # NULL => r.outcome = "pointer" /\ r.returned = r.answer

\* C9 is met where the smallest overflowing count of elements larger than one
\* byte is refused.
C9_Witness ==
    /\ alloc.op = "allocate"
    /\ alloc.sizeofT > 1
    /\ Bytes > SizeMax
    /\ Bytes - alloc.sizeofT <= SizeMax
    /\ alloc.result.outcome = "length_error"
    /\ alloc.result.requested = NoRequest

\* The smallest multiple of Alignment that is >= x, as a number.
RoundedUp(x, Alignment) == ((x + Alignment - 1) \div Alignment) * Alignment

\* C10 as stated: for every n > 0 that passes the overflow check, the byte size
\* requested from the platform allocator is the smallest multiple of Alignment
\* that is >= n * sizeof(T), without wrap-around, on both platform paths.
C10_RequestRoundedUp ==
    (alloc.op = "allocate" /\ alloc.n > 0 /\ Bytes <= SizeMax) =>
        alloc.result.requested = RoundedUp(Bytes, alloc.Alignment)

====
